---- MODULE Spec2Model ----
(***************************************************************************)
(* A model of the Express application template: the middleware stack of    *)
(* src/app.ts, the request instrumentation of src/middlewares/middlewares  *)
(* .ts, the logger of src/utils/logger.ts, the morgan wiring of            *)
(* src/middlewares/logging.ts and the error classifier of                  *)
(* src/middlewares/errorHandler.ts.                                        *)
(*                                                                         *)
(* Node runs one callback at a time: everything a request does between two *)
(* asynchronous points (arrival, the timer of GET /slow, the 'finish'      *)
(* event of the response) is one step.  A step dispatches the request      *)
(* through the layers of Stack the way the Express router does: next()     *)
(* goes on to the next layer that matches, next(err) to the next           *)
(* error-handling layer, and a layer that answers ends the dispatch.       *)
(***************************************************************************)
EXTENDS Integers, Sequences, FiniteSets, TLC

VARIABLES
  env,   \* process.env.NODE_ENV, fixed for the life of the process
  now,   \* Date.now(), in milliseconds since the process started
  ctx,   \* ctx[r]: the req/res pair of request slot r and what was observed of it
  win,   \* win[tier]: the rate-limit window of the (single) client key
  proc   \* the process of src/server.ts: its server, timers and exit

vars == <<env, now, ctx, win, proc>>

----------------------------------------------------------------------------
(* Bounds of the model *)

MaxReq == 2      \* request slots: how many requests are in flight together
MaxTicks == 2    \* how many times the clock advances

Reqs == 1..MaxReq

----------------------------------------------------------------------------
(* Environment *)

Unset == "<unset>"

Envs == {"development", "production", "staging", Unset}

\* process.env.NODE_ENV ?? 'development'
ResolvedEnv == IF env = Unset THEN "development" ELSE env

----------------------------------------------------------------------------
(* The logger *)

levels == [debug |-> 4, error |-> 0, http |-> 3, info |-> 2, warn |-> 1]

\* a logger that lets every level through in every environment
levelDebugEverywhere == "debug"

level == IF ResolvedEnv = "development" THEN "debug" ELSE "warn"

\* winston drops a call whose level number is above the logger's level number
LoggerAccepts(lvl) == levels[lvl] <= levels[level]

\* an error.log without a level of its own
transportsWithoutErrorLevel ==
  [console |-> level, errorFile |-> level, combinedFile |-> level]

\* the three transports: the console and combined.log take the logger's level,
\* error.log takes level 'error'
transports == [console |-> level, errorFile |-> "error", combinedFile |-> level]

SinksOf(lvl) == {t \in DOMAIN transports : levels[lvl] <= levels[transports[t]]}

LogRecord(lvl, message, meta) ==
  [kind |-> "log", level |-> lvl, message |-> message, meta |-> meta,
   sinks |-> SinksOf(lvl)]

\* logger.<lvl>(message, meta) on behalf of the request with context c
Log(c, lvl, message, meta) ==
  IF LoggerAccepts(lvl)
    THEN [c EXCEPT !.trace = Append(@, LogRecord(lvl, message, meta))]
    ELSE c

----------------------------------------------------------------------------
(* Failures: the values handed to next(err) *)

NoError ==
  [present |-> FALSE, isAppError |-> FALSE, name |-> "", code |-> 0,
   message |-> "", statusCode |-> 0, errors |-> <<>>, stack |-> ""]

StackOf(message) == "Error: " \o message

\* new Error(message): name 'Error', no code, no statusCode
Error(message) ==
  [present |-> TRUE, isAppError |-> FALSE, name |-> "Error", code |-> 0,
   message |-> message, statusCode |-> 0, errors |-> <<>>,
   stack |-> StackOf(message)]

\* new AppError(message, statusCode): the name is inherited from Error
AppError(message, statusCode) ==
  [present |-> TRUE, isAppError |-> TRUE, name |-> "Error", code |-> 0,
   message |-> message, statusCode |-> statusCode, errors |-> <<>>,
   stack |-> StackOf(message)]

DefaultStatusCode == 500

----------------------------------------------------------------------------
(* Requests and their contexts *)

NoTime == 0 - 1

NoBody == [none |-> TRUE]

\* the requests a client sends: method, url and whether the body parses
Requests ==
  { [method |-> "GET",  url |-> "/",               body |-> "ok"],
    [method |-> "GET",  url |-> "/error",          body |-> "ok"],
    [method |-> "GET",  url |-> "/slow",           body |-> "ok"],
    [method |-> "GET",  url |-> "/limiter/strict", body |-> "ok"],
    [method |-> "POST", url |-> "/limiter/auth",   body |-> "ok"],
    [method |-> "POST", url |-> "/limiter/auth",   body |-> "malformed"],
    [method |-> "GET",  url |-> "/unknown-path",   body |-> "ok"] }

\* a request slot nothing has arrived in; res.statusCode starts at 200.
\* trace, stages and sentAt are what an observer records of the request: the
\* log records and responses in order, the layers entered in order, and the
\* time of the response
IdleCtx ==
  [phase |-> "idle", method |-> "", url |-> "", body |-> "",
   startTime |-> NoTime, sendPatched |-> FALSE, finishListener |-> FALSE,
   morganAttached |-> FALSE, err |-> NoError, next |-> FALSE,
   statusCode |-> 200, sent |-> 0, resBody |-> NoBody, headers |-> {},
   wake |-> NoTime, sentAt |-> NoTime, trace |-> <<>>, stages |-> <<>>]

NewCtx(rq) ==
  [IdleCtx EXCEPT !.phase = "running", !.method = rq.method, !.url = rq.url,
                  !.body = rq.body]

\* what a layer does to hand over: next() and next(err)
Next_(c) == [c EXCEPT !.next = TRUE]

NextErr(c, e) == [c EXCEPT !.next = TRUE, !.err = e]

----------------------------------------------------------------------------
(* src/server.ts: the process *)

NoCode == 0 - 1

\* the process before app.listen has called back.  conns are the request
\* slots whose connection is open, onClose the exit codes of the callbacks
\* given to server.close, timers the deadlines of the pending shutdown
\* timers; signalAt, faulted, exitedAt and exitBy are what an observer
\* records of the process
Booted ==
  [listening |-> TRUE, closing |-> FALSE, onClose |-> <<>>, timers |-> {},
   conns |-> {}, exited |-> FALSE, exitCode |-> NoCode, trace |-> <<>>,
   signalAt |-> NoTime, faulted |-> FALSE, exitedAt |-> NoTime,
   exitBy |-> ""]

\* the callback of app.listen
Started ==
  Log(Booted, "info", "Server started successfully",
      [environment |-> ResolvedEnv, port |-> "3000"])

----------------------------------------------------------------------------
(* The response object *)

\* res.status(code)
status(c, code) == [c EXCEPT !.statusCode = code]

\* a start time kept in one place for all requests: the latest one wins
StartTimeShared(c) ==
  LET S == {ctx[r].startTime : r \in Reqs} \cup {c.startTime}
  IN  CHOOSE m \in S : \A x \in S : m >= x

\* (req as { startTime: number }).startTime
StartTimeOf(c) == c.startTime

\* a finish record that measures from the start of the process
OutgoingMetaSinceBoot(c) ==
  [method |-> c.method, responseTime |-> now,
   statusCode |-> c.statusCode, url |-> c.url]

OutgoingMeta(c) ==
  [method |-> c.method, responseTime |-> now - StartTimeOf(c),
   statusCode |-> c.statusCode, url |-> c.url]

\* the res.send that responseLogger installs: logs, then calls the original
PatchedSendLog(c) == Log(c, "info", "Outgoing response", OutgoingMeta(c))

\* res.send(data): through the patch when responseLogger installed it
send(c, data) ==
  LET c1 == IF c.sendPatched THEN PatchedSendLog(c) ELSE c
  IN  [c1 EXCEPT !.trace = Append(@, [kind |-> "response",
                                      statusCode |-> c.statusCode,
                                      body |-> data]),
                 !.sent = @ + 1, !.resBody = data, !.sentAt = now,
                 !.phase = "responded", !.next = FALSE]

\* res.json(body) serialises and calls res.send
json(c, body) == send(c, body)

----------------------------------------------------------------------------
(* src/middlewares/middlewares.ts *)

RequestMeta(c) == [method |-> c.method, url |-> c.url]

middleware(c) == Next_(Log(c, "debug", "Middleware called", RequestMeta(c)))

requestLogger(c) == Next_(Log(c, "info", "Incoming request", RequestMeta(c)))

responseLogger(c) == Next_([c EXCEPT !.sendPatched = TRUE])

performanceMonitor(c) ==
  Next_([c EXCEPT !.startTime = now, !.finishListener = TRUE])

SlowThresholdMs == 1000

\* a threshold that takes a duration of exactly one second for slow
IsSlowInclusive(duration) == duration >= SlowThresholdMs

IsSlow(duration) == duration > SlowThresholdMs

\* the clock of the model advances by the threshold, so that durations fall
\* below it (0), on it and above it
TickMs == SlowThresholdMs

\* the 'finish' listener performanceMonitor registers
OnFinishMonitor(c) ==
  LET duration == now - StartTimeOf(c)
  IN  IF IsSlow(duration)
        THEN Log(c, "warn", "Slow request detected",
                 [duration |-> duration, method |-> c.method, url |-> c.url])
        ELSE c

----------------------------------------------------------------------------
(* src/middlewares/logging.ts *)

\* the skip option createMorganMiddleware passes to morgan
MorganSkip(statusCode) ==
  CASE ResolvedEnv = "development" -> statusCode < 400
    [] ResolvedEnv = "production"  -> statusCode >= 400
    [] OTHER                       -> FALSE

MorganFormat == IF ResolvedEnv = "development" THEN "devFormat" ELSE "prodFormat"

\* morgan notes the request and waits for the response to finish
morganMiddleware(c) == Next_([c EXCEPT !.morganAttached = TRUE])

\* stream.write(line): logger.http(line.trim())
OnFinishMorgan(c) ==
  IF c.morganAttached /\ ~MorganSkip(c.statusCode)
    THEN Log(c, "http", c.method \o " " \o c.url,
             [format |-> MorganFormat, status |-> c.statusCode])
    ELSE c

----------------------------------------------------------------------------
(* src/middlewares/errorHandler.ts *)

RECURSIVE Join(_)
\* messages.join(', ')
Join(messages) ==
  IF messages = <<>> THEN ""
  ELSE IF Len(messages) = 1 THEN messages[1]
  ELSE messages[1] \o ", " \o Join(Tail(messages))

\* a classifier that answers a bad ObjectId with 400
ClassifyCastAs400(err) ==
  IF err.name = "CastError" THEN AppError("Resource not found", 400)
  ELSE IF err.name = "MongoError" /\ err.code = 11000
    THEN AppError("Duplicate field value entered", 400)
  ELSE IF err.name = "ValidationError" THEN AppError(Join(err.errors), 400)
  ELSE IF err.name = "JsonWebTokenError" THEN AppError("Invalid token", 401)
  ELSE IF err.name = "TokenExpiredError" THEN AppError("Token expired", 401)
  ELSE IF err.isAppError THEN err
  ELSE AppError(err.message, DefaultStatusCode)

\* lines 26 and 46-76: the AppError the handler ends up with
Classify(err) ==
  LET e0 == IF err.isAppError THEN err
            ELSE AppError(err.message, DefaultStatusCode)
      e1 == IF err.name = "CastError"
              THEN AppError("Resource not found", 404) ELSE e0
      e2 == IF err.name = "MongoError" /\ err.code = 11000
              THEN AppError("Duplicate field value entered", 400) ELSE e1
      e3 == IF err.name = "ValidationError"
              THEN AppError(Join(err.errors), 400) ELSE e2
      e4 == IF err.name = "JsonWebTokenError"
              THEN AppError("Invalid token", 401) ELSE e3
      e5 == IF err.name = "TokenExpiredError"
              THEN AppError("Token expired", 401) ELSE e4
  IN  e5

\* error.statusCode || 500: 0 is falsy
StatusCodeOf(error) ==
  IF error.statusCode # 0 THEN error.statusCode ELSE 500

\* a responder that hides every message behind the generic one
MessageGeneric(error) == "Server Error"

\* error.message || 'Server Error': the empty string is falsy
MessageOf(error) ==
  IF error.message # "" THEN error.message ELSE "Server Error"

\* a body that leaves the stack out in production only
ErrorBodyUnlessProduction(message, err) ==
  IF env # "production"
    THEN [error |-> [message |-> message, stack |-> err.stack],
          success |-> FALSE]
    ELSE [error |-> [message |-> message], success |-> FALSE]

\* ...(process.env.NODE_ENV === 'development' && { stack: err.stack })
ErrorBody(message, err) ==
  IF env = "development"
    THEN [error |-> [message |-> message, stack |-> err.stack],
          success |-> FALSE]
    ELSE [error |-> [message |-> message], success |-> FALSE]

ErrorMeta(c) ==
  [error |-> [message |-> c.err.message, name |-> c.err.name,
              stack |-> c.err.stack],
   request |-> [method |-> c.method, url |-> c.url]]

\* a handler that answers first and logs afterwards
errorHandlerAnswersFirst(c) ==
  LET err      == c.err
      error    == Classify(err)
      answered == json(status(c, StatusCodeOf(error)),
                       ErrorBody(MessageOf(error), err))
  IN  Log(answered, "error", "Error occurred:", ErrorMeta(c))

errorHandler(c) ==
  LET err    == c.err
      error  == Classify(err)
      logged == Log(c, "error", "Error occurred:", ErrorMeta(c))
  IN  json(status(logged, StatusCodeOf(error)),
           ErrorBody(MessageOf(error), err))

\* a 404 handler that logs the failure itself before handing it on
notFoundHandlerLogs(c) ==
  NextErr(Log(c, "error", "Route not found", RequestMeta(c)),
          AppError("Route " \o c.url \o " not found", 404))

\* new AppError(`Route ${req.originalUrl} not found`, 404), handed to next
notFoundHandler(c) ==
  NextErr(c, AppError("Route " \o c.url \o " not found", 404))

----------------------------------------------------------------------------
(* src/middlewares/rateLimit.ts: the admission limiter *)

Tiers == {"general", "strict", "auth"}

WindowMs == 900000
GeneralMax == 100
DevelopmentMax == 1000
StrictMax == 5
AuthMax == 10

maxRequests(tier) ==
  CASE tier = "strict" -> StrictMax
    [] tier = "auth"   -> AuthMax
    [] OTHER           -> IF ResolvedEnv = "development" THEN DevelopmentMax
                          ELSE GeneralMax

NoWindow == [active |-> FALSE, start |-> 0, count |-> 0]

\* the window after one more call, for the client key of the model
Consume(window) ==
  IF ~window.active \/ now - window.start >= WindowMs
    THEN [active |-> TRUE, start |-> now, count |-> 1]
    ELSE [window EXCEPT !.count = @ + 1]

tryAdmit(window, tier) == Consume(window).count <= maxRequests(tier)

\* a limiter that reports the denial as a failure
DenyAsFailure(c, tier) == NextErr(c, AppError("Too many requests", 429))

\* the denial: one warn record, 429 and the rate-limit headers
Deny(c, tier) ==
  LET warned == Log(c, "warn", "Rate limit exceeded", RequestMeta(c))
      headed == [warned EXCEPT !.headers =
                   {"RateLimit-Limit", "RateLimit-Remaining", "RateLimit-Reset"}]
  IN  send(status(headed, 429), [message |-> "Too many requests"])

\* a limiter middleware of a tier, on the world w = [c, win]
limiter(w, tier) ==
  [c   |-> IF tryAdmit(w.win[tier], tier) THEN Next_(w.c) ELSE Deny(w.c, tier),
   win |-> [w.win EXCEPT ![tier] = Consume(@)]]

----------------------------------------------------------------------------
(* src/app.ts *)

ParseFailure ==
  [present |-> TRUE, isAppError |-> FALSE, name |-> "SyntaxError", code |-> 0,
   message |-> "Unexpected end of JSON input", statusCode |-> 400,
   errors |-> <<>>, stack |-> StackOf("Unexpected end of JSON input")]

\* express.json and express.urlencoded: a body that does not parse is an error
bodyParsers(c) ==
  IF c.body = "malformed" THEN NextErr(c, ParseFailure) ELSE Next_(c)

homeRoute(c) ==
  LET c1 == middleware(c)
      c2 == Log(c1, "info", "Home route accessed", RequestMeta(c))
  IN  json(c2, [message |-> "Hello World!"])

errorRoute(c) ==
  NextErr(Log(c, "warn", "Error test route accessed", RequestMeta(c)),
          Error("This is a test error for logging"))

SlowDelayMs == 1500

\* up to the await: the timer is set and the handler is suspended
slowRoute(c) ==
  [Log(c, "info", "Slow route accessed", RequestMeta(c))
     EXCEPT !.phase = "sleeping", !.wake = now + SlowDelayMs, !.next = FALSE]

\* after the await
slowResume(c) == json(c, [message |-> "Slow response completed"])

\* a route registered without its limiter
limitedRouteWithoutLimiter(w, tier, accessed, message) ==
  [w EXCEPT !.c = json(Log(w.c, "info", accessed, RequestMeta(w.c)),
                       [message |-> message])]

limitedRoute(w, tier, accessed, message) ==
  LET w1 == limiter(w, tier)
  IN  IF w1.c.next
        THEN [w1 EXCEPT !.c = json(Log(w1.c, "info", accessed, RequestMeta(w.c)),
                                   [message |-> message])]
        ELSE w1

\* the order of the specification: the limiter ahead of the instrumentation
StackLimiterFirst ==
  << "bodyParsers", "getRateLimiter", "performanceMonitor", "requestLogger",
     "morganMiddleware", "responseLogger",
     "GET /", "GET /error", "GET /slow", "GET /limiter/strict",
     "POST /limiter/auth", "notFoundHandler", "errorHandler" >>

\* an application without the general limiter
StackWithoutLimiter ==
  << "bodyParsers", "performanceMonitor", "requestLogger", "morganMiddleware",
     "responseLogger",
     "GET /", "GET /error", "GET /slow", "GET /limiter/strict",
     "POST /limiter/auth", "notFoundHandler", "errorHandler" >>

\* an application that registers the general limiter after its routes
StackLimiterAfterRoutes ==
  << "bodyParsers", "performanceMonitor", "requestLogger", "morganMiddleware",
     "responseLogger",
     "GET /", "GET /error", "GET /slow", "GET /limiter/strict",
     "POST /limiter/auth", "getRateLimiter", "notFoundHandler", "errorHandler" >>

\* the layers of the application, in the order app.ts registers them
Stack ==
  << "bodyParsers", "performanceMonitor", "requestLogger", "morganMiddleware",
     "responseLogger", "getRateLimiter",
     "GET /", "GET /error", "GET /slow", "GET /limiter/strict",
     "POST /limiter/auth", "notFoundHandler", "errorHandler" >>

Routes ==
  ( "GET /" :> [method |-> "GET", path |-> "/"] ) @@
  ( "GET /error" :> [method |-> "GET", path |-> "/error"] ) @@
  ( "GET /slow" :> [method |-> "GET", path |-> "/slow"] ) @@
  ( "GET /limiter/strict" :> [method |-> "GET", path |-> "/limiter/strict"] ) @@
  ( "POST /limiter/auth" :> [method |-> "POST", path |-> "/limiter/auth"] )

\* the router's choice: an error goes to error-handling layers only, a route
\* layer takes its own method and path, app.use takes everything
Matches(layer, c) ==
  IF layer = "errorHandler" THEN c.err.present
  ELSE /\ ~c.err.present
       /\ layer \in DOMAIN Routes =>
            /\ Routes[layer].method = c.method
            /\ Routes[layer].path = c.url

OnCtx(w, c) == [w EXCEPT !.c = c]

Apply(layer, w) ==
  CASE layer = "bodyParsers"        -> OnCtx(w, bodyParsers(w.c))
    [] layer = "performanceMonitor" -> OnCtx(w, performanceMonitor(w.c))
    [] layer = "requestLogger"      -> OnCtx(w, requestLogger(w.c))
    [] layer = "morganMiddleware"   -> OnCtx(w, morganMiddleware(w.c))
    [] layer = "responseLogger"     -> OnCtx(w, responseLogger(w.c))
    [] layer = "getRateLimiter"     -> limiter(w, "general")
    [] layer = "GET /"              -> OnCtx(w, homeRoute(w.c))
    [] layer = "GET /error"         -> OnCtx(w, errorRoute(w.c))
    [] layer = "GET /slow"          -> OnCtx(w, slowRoute(w.c))
    [] layer = "GET /limiter/strict" ->
         limitedRoute(w, "strict", "Strict rate limited route accessed",
                      "This route has strict rate limiting")
    [] layer = "POST /limiter/auth" ->
         limitedRoute(w, "auth", "Auth route accessed",
                      "Login endpoint with auth rate limiting")
    [] layer = "notFoundHandler"    -> OnCtx(w, notFoundHandler(w.c))
    [] layer = "errorHandler"       -> OnCtx(w, errorHandler(w.c))

RECURSIVE Handle(_, _)
\* app.handle from layer i on: run the layers that match until one answers
\* or suspends
Handle(w, i) ==
  IF i > Len(Stack) THEN w
  ELSE IF ~Matches(Stack[i], w.c) THEN Handle(w, i + 1)
  ELSE LET entered == [w EXCEPT !.c.stages = Append(@, Stack[i]),
                                !.c.next = FALSE]
           left    == Apply(Stack[i], entered)
       IN  IF left.c.next THEN Handle(left, i + 1) ELSE left

----------------------------------------------------------------------------
(* The application as a state machine *)

\* the client's earlier calls: none yet, or so many that the general window
\* is one call short of its maximum and the windows of the route limiters are
\* at their maximum
PriorTraffic ==
  { [t \in Tiers |-> NoWindow],
    [t \in Tiers |->
       [active |-> TRUE, start |-> 0,
        count  |-> IF t = "general" THEN maxRequests(t) - 1
                   ELSE maxRequests(t)]] }

Init ==
  /\ env \in Envs
  /\ proc = Started
  /\ now = 0
  /\ ctx = [r \in Reqs |-> IdleCtx]
  /\ win \in PriorTraffic

\* a request arrives and runs until it is answered or suspended
Receive(r) ==
  /\ ctx[r].phase = "idle"
  /\ r > 1 => ctx[r - 1].phase # "idle"
  /\ \E rq \in Requests :
       \E w \in {Handle([c |-> NewCtx(rq), win |-> win], 1)} :
         /\ ctx' = [ctx EXCEPT ![r] = w.c]
         /\ win' = w.win
  /\ UNCHANGED <<env, now, proc>>

\* the timer of GET /slow fires
SlowTimer(r) ==
  /\ ctx[r].phase = "sleeping"
  /\ now >= ctx[r].wake
  /\ ctx' = [ctx EXCEPT ![r] = slowResume(@)]
  /\ UNCHANGED <<env, now, win, proc>>

\* the response has been handed to the network: the 'finish' listeners run,
\* and nothing reads the clock readings kept for the request after them
Finish(r) ==
  /\ ctx[r].phase = "responded"
  /\ LET c1 == IF ctx[r].finishListener THEN OnFinishMonitor(ctx[r]) ELSE ctx[r]
         c2 == OnFinishMorgan(c1)
     IN  ctx' = [ctx EXCEPT ![r] = [c2 EXCEPT !.phase = "finished",
                                             !.startTime = NoTime,
                                             !.wake = NoTime,
                                             !.sentAt = NoTime]]
  /\ UNCHANGED <<env, now, win, proc>>

\* time passes while a request is in flight
Tick ==
  /\ now + TickMs <= MaxTicks * TickMs
  /\ \E r \in Reqs : ctx[r].phase \in {"sleeping", "responded"}
  /\ now' = now + TickMs
  /\ UNCHANGED <<env, ctx, win, proc>>

Next ==
  \/ \E r \in Reqs : Receive(r)
  \/ \E r \in Reqs : SlowTimer(r)
  \/ \E r \in Reqs : Finish(r)
  \/ Tick

Spec == Init /\ [][Next]_vars

----------------------------------------------------------------------------
(* The error classifier on its own: a handler of an application built on   *)
(* the template (the README's /users/:id) hands a failure to next          *)

ErrorNames ==
  {"Error", "CastError", "MongoError", "ValidationError", "JsonWebTokenError",
   "TokenExpiredError"}

FieldMessages ==
  { <<>>, <<"">>, <<"Name is required">>,
    <<"Name is required", "Email is invalid">> }

Failures ==
  { [present |-> TRUE, isAppError |-> a, name |-> n, code |-> k, message |-> m,
     statusCode |-> sc, errors |-> es, stack |-> StackOf(m)] :
      a \in BOOLEAN, n \in ErrorNames, k \in {0, 11000},
      m \in {"", "User not found"}, sc \in {0 - 1, 0, 50, 400, 403},
      es \in FieldMessages }

\* the shapes that occur: only a MongoError carries a code, only a
\* ValidationError carries field errors, only an AppError is constructed
\* with a statusCode of the caller's choice
WellShaped(f) ==
  /\ f.code # 0 => f.name = "MongoError"
  /\ f.errors # <<>> => f.name = "ValidationError"
  /\ ~f.isAppError => f.statusCode \in {0, 400}

\* a request that went through the instrumentation and whose handler failed
Raised(rq, f) ==
  [responseLogger(morganMiddleware(requestLogger(performanceMonitor(
     bodyParsers(NewCtx(rq))))))
     EXCEPT !.err = f, !.phase = "failed", !.next = FALSE]

InitErrorHandler ==
  /\ env \in Envs
  /\ proc = Started
  /\ now = 0
  /\ win = [t \in Tiers |-> NoWindow]
  /\ \E f \in {g \in Failures : WellShaped(g)} :
       ctx = [r \in Reqs |->
                IF r = 1
                  THEN Raised([method |-> "GET", url |-> "/users/1",
                               body |-> "ok"], f)
                  ELSE IdleCtx]

\* next(err): the router goes to the error-handling layer
HandleFailure(r) ==
  /\ ctx[r].phase = "failed"
  /\ ctx' = [ctx EXCEPT ![r] = Handle([c |-> @, win |-> win], 1).c]
  /\ UNCHANGED <<env, now, win, proc>>

NextErrorHandler ==
  \/ \E r \in Reqs : HandleFailure(r)
  \/ \E r \in Reqs : Finish(r)
  \/ Tick

SpecErrorHandler == InitErrorHandler /\ [][NextErrorHandler]_vars

----------------------------------------------------------------------------
(* The logger on its own: calls of logger.error / warn / info / http /      *)
(* debug from anywhere in the process.  Here ctx is the logger's history:   *)
(* calls, the levels called in order, and trace, the records written.       *)

MaxLogs == 3     \* how many calls of the logger are followed

\* the values NODE_ENV may hold when the logger module is loaded; the empty
\* string is a value, not the absence of one
LoggerEnvs == Envs \cup {""}

LoggerCtx == [calls |-> <<>>, trace |-> <<>>]

\* winston.createLogger runs when the module is loaded, whatever NODE_ENV is
InitLogger ==
  /\ env \in LoggerEnvs
  /\ proc = Started
  /\ now = 0
  /\ ctx = LoggerCtx
  /\ win = [t \in Tiers |-> NoWindow]

\* logger.<lvl>('message')
LogCall(lvl) ==
  /\ Len(ctx.calls) < MaxLogs
  /\ ctx' = Log([ctx EXCEPT !.calls = Append(@, lvl)], lvl, "message",
                [none |-> TRUE])
  /\ UNCHANGED <<env, now, win, proc>>

NextLogger == \E lvl \in DOMAIN levels : LogCall(lvl)

SpecLogger == InitLogger /\ [][NextLogger]_vars

----------------------------------------------------------------------------
(* One client calling one route again and again, each call after the       *)
(* response to the one before, while its rate-limit windows fill and       *)
(* elapse.  Here ctx is the sequence of the finished calls.                 *)

MaxCalls == 6    \* how many calls the client makes

\* the clock of this specification advances by half a window
HalfWindowMs == WindowMs \div 2

\* the routes the client may choose: behind the general limiter only, or
\* behind a route limiter as well
LimitedRequests ==
  {rq \in Requests :
     rq.body = "ok" /\ rq.url \in {"/", "/limiter/strict", "/limiter/auth"}}

\* the 'finish' listeners of a response, monitor first
Finished(c) ==
  LET c1 == IF c.finishListener THEN OnFinishMonitor(c) ELSE c
  IN  [OnFinishMorgan(c1) EXCEPT !.phase = "finished"]

InitLimiter ==
  /\ env \in Envs
  /\ proc = Started
  /\ now = 0
  /\ ctx = <<>>
  /\ win \in PriorTraffic

\* the client calls its route and reads the response
Call(rq) ==
  /\ Len(ctx) < MaxCalls
  /\ ctx # <<>> => rq.url = ctx[1].url
  /\ \E w \in {Handle([c |-> NewCtx(rq), win |-> win], 1)} :
       /\ ctx' = Append(ctx, Finished(w.c))
       /\ win' = w.win
  /\ UNCHANGED <<env, now, proc>>

\* half a window passes between two calls
WindowTick ==
  /\ now + HalfWindowMs <= MaxTicks * HalfWindowMs
  /\ now' = now + HalfWindowMs
  /\ UNCHANGED <<env, ctx, win, proc>>

NextLimiter ==
  \/ \E rq \in LimitedRequests : Call(rq)
  \/ WindowTick

SpecLimiter == InitLimiter /\ [][NextLimiter]_vars

----------------------------------------------------------------------------
(* src/server.ts: the process around the application, its signals, its      *)
(* faults and its exit                                                      *)

MaxEvents == 2   \* how many signals and faults the process receives

ForceTimeoutMs == 10000

\* the clock of this specification advances by one shutdown timeout
ServerTickMs == ForceTimeoutMs

\* what the clients of this specification send: the request that stays in
\* flight for a while
ServerRequests == {rq \in Requests : rq.url = "/slow"}

Signals == {"SIGTERM", "SIGINT"}

Faults ==
  [unhandledRejection |-> "Unhandled Promise Rejection:",
   uncaughtException  |-> "Uncaught Exception:"]

\* process.exit(code)
exit(p, code, by) ==
  [p EXCEPT !.exited = TRUE, !.exitCode = code, !.listening = FALSE,
            !.exitedAt = now, !.exitBy = by]

\* server.close(callback): no new connections are accepted, the callback
\* runs on 'close', once the connections that are open have ended
close(p, code) ==
  [p EXCEPT !.listening = FALSE, !.closing = TRUE,
            !.onClose = Append(@, code)]

\* a shutdown that only waits for the server to close
gracefulShutdownWithoutDeadline(p, signal) ==
  LET p1 == Log(p, "info", signal \o " received, shutting down gracefully",
                [none |-> TRUE])
  IN  [close(p1, 0) EXCEPT !.signalAt = IF @ = NoTime THEN now ELSE @]

\* a shutdown that starts its deadline again with every signal
gracefulShutdownRestartsTimer(p, signal) ==
  LET p1 == Log(p, "info", signal \o " received, shutting down gracefully",
                [none |-> TRUE])
  IN  [close(p1, 0) EXCEPT !.timers = {now + ForceTimeoutMs},
                           !.signalAt = IF @ = NoTime THEN now ELSE @]

gracefulShutdown(p, signal) ==
  LET p1 == Log(p, "info", signal \o " received, shutting down gracefully",
                [none |-> TRUE])
  IN  [close(p1, 0) EXCEPT !.timers = @ \cup {now + ForceTimeoutMs},
                           !.signalAt = IF @ = NoTime THEN now ELSE @]

\* the handlers of 'unhandledRejection' and 'uncaughtException'
onFault(p, kind) ==
  close([Log(p, "error", Faults[kind], [none |-> TRUE])
           EXCEPT !.faulted = TRUE], 1)

InitServer ==
  /\ env \in Envs
  /\ proc = Started
  /\ now = 0
  /\ ctx = [r \in Reqs |-> IdleCtx]
  /\ win = [t \in Tiers |-> NoWindow]

\* a client connects and its request runs until it is answered or suspended
Accept(r) ==
  /\ ~proc.exited
  /\ proc.listening
  /\ ctx[r].phase = "idle"
  /\ r > 1 => ctx[r - 1].phase # "idle"
  /\ \E rq \in ServerRequests :
       \E w \in {Handle([c |-> NewCtx(rq), win |-> win], 1)} :
         /\ ctx' = [ctx EXCEPT ![r] = w.c]
         /\ win' = w.win
  /\ proc' = [proc EXCEPT !.conns = @ \cup {r}]
  /\ UNCHANGED <<env, now>>

ServerSlowTimer(r) == ~proc.exited /\ SlowTimer(r)

ServerFinish(r) == ~proc.exited /\ Finish(r)

\* the connection of an answered request ends
Disconnect(r) ==
  /\ ~proc.exited
  /\ r \in proc.conns
  /\ ctx[r].phase = "finished"
  /\ proc' = [proc EXCEPT !.conns = @ \ {r}]
  /\ UNCHANGED <<env, now, ctx, win>>

\* process.on('SIGTERM' / 'SIGINT')
Signal(sig) ==
  /\ ~proc.exited
  /\ Len(proc.onClose) < MaxEvents
  /\ proc' = gracefulShutdown(proc, sig)
  /\ UNCHANGED <<env, now, ctx, win>>

\* process.on('unhandledRejection' / 'uncaughtException')
Fault(kind) ==
  /\ ~proc.exited
  /\ Len(proc.onClose) < MaxEvents
  /\ proc' = onFault(proc, kind)
  /\ UNCHANGED <<env, now, ctx, win>>

\* server.on('error'): the server could not listen
ServerFailure ==
  /\ ~proc.exited
  /\ now = 0
  /\ ~proc.closing
  /\ \A r \in Reqs : ctx[r].phase = "idle"
  /\ proc' = exit(Log(proc, "error", "Server error:", [none |-> TRUE]), 1,
                  "error")
  /\ UNCHANGED <<env, now, ctx, win>>

\* 'close': the first callback given to server.close runs and exits
CloseDone ==
  /\ ~proc.exited
  /\ proc.closing
  /\ proc.conns = {}
  /\ LET code == Head(proc.onClose)
         p1   == IF code = 0
                   THEN Log(proc, "info", "Server closed, process terminated",
                            [none |-> TRUE])
                   ELSE proc
     IN  proc' = exit(p1, code, "close")
  /\ UNCHANGED <<env, now, ctx, win>>

\* the shutdown timer fires, after the timers that were due before it
ForceTimer ==
  /\ ~proc.exited
  /\ \E d \in proc.timers :
       /\ now >= d
       /\ \A r \in Reqs : ctx[r].phase = "sleeping" => ctx[r].wake >= d
  /\ proc' = exit(Log(proc, "error", "Forced shutdown after timeout",
                      [none |-> TRUE]), 1, "timer")
  /\ UNCHANGED <<env, now, ctx, win>>

\* time passes once everything that is due has run
ServerTick ==
  /\ ~proc.exited
  /\ \A d \in proc.timers : now < d
  /\ \A r \in Reqs : ctx[r].phase = "sleeping" => now < ctx[r].wake
  /\ \A r \in Reqs : ctx[r].phase # "responded"
  /\ ~(proc.closing /\ proc.conns = {})
  /\ now + ServerTickMs <= MaxTicks * ServerTickMs
  /\ now' = now + ServerTickMs
  /\ UNCHANGED <<env, ctx, win, proc>>

NextServer ==
  \/ \E r \in Reqs : Accept(r)
  \/ \E r \in Reqs : ServerSlowTimer(r)
  \/ \E r \in Reqs : ServerFinish(r)
  \/ \E r \in Reqs : Disconnect(r)
  \/ \E sig \in Signals : Signal(sig)
  \/ \E kind \in DOMAIN Faults : Fault(kind)
  \/ ServerFailure
  \/ CloseDone
  \/ ForceTimer
  \/ ServerTick

SpecServer == InitServer /\ [][NextServer]_vars

----------------------------------------------------------------------------
(* asyncHandler of src/middlewares/errorHandler.ts around the handler of an *)
(* application built on the template, the GET /users/:id of docs/logging.md *)

UserRequest == [method |-> "GET", url |-> "/users/1", body |-> "ok"]

\* what User.findById rejects with when the id is no ObjectId
CastFailure ==
  [present |-> TRUE, isAppError |-> FALSE, name |-> "CastError", code |-> 0,
   message |-> "Cast to ObjectId failed", statusCode |-> 0, errors |-> <<>>,
   stack |-> StackOf("Cast to ObjectId failed")]

\* how the promise of the wrapped handler settles: it resolves, or it rejects
\* with what the handler threw
Settlements ==
  {[rejects |-> FALSE, reason |-> NoError]} \cup
  {[rejects |-> TRUE, reason |-> f] :
     f \in {AppError("User not found", 404), CastFailure,
            Error("connection lost")}}

\* the request went through the instrumentation, the wrapper called the
\* handler, and the handler waits for User.findById
Awaiting(rq) ==
  [responseLogger(morganMiddleware(requestLogger(performanceMonitor(
     bodyParsers(NewCtx(rq))))))
     EXCEPT !.phase = "awaiting", !.next = FALSE]

\* the rest of the handler of the documentation: res.json(user), or the
\* throw; the settlement of its promise is recorded in the trace
findUser(c, s) ==
  LET settled == [c EXCEPT !.trace = Append(@, [kind |-> "settled",
                                                rejects |-> s.rejects,
                                                reason |-> s.reason])]
  IN  IF s.rejects THEN [settled EXCEPT !.phase = "failed"]
      ELSE json(settled, [id |-> "1"])

\* next(err) called by a promise callback; the call is recorded in the trace
CallNext(c, e) ==
  [NextErr(c, e) EXCEPT !.trace = Append(@, [kind |-> "next", err |-> e])]

\* a wrapper that lets the promise go: (req, res, next) => { fn(req, res, next) }
asyncHandlerWithoutCatch(c, s) ==
  [c |-> findUser(c, s), unhandled |-> s.rejects]

\* Promise.resolve(fn(req, res, next)).catch(next), from the settlement on;
\* unhandled tells whether the rejection is left without a handler
asyncHandler(c, s) ==
  LET c1 == findUser(c, s)
  IN  [c |-> IF s.rejects THEN CallNext(c1, s.reason) ELSE c1,
       unhandled |-> FALSE]

\* where the dispatch goes on after the route layers
AfterRoutes == CHOOSE i \in DOMAIN Stack : Stack[i] = "notFoundHandler"

InitAsync ==
  /\ env \in Envs
  /\ proc = Started
  /\ now = 0
  /\ ctx = [r \in Reqs |-> IdleCtx]
  /\ win = [t \in Tiers |-> NoWindow]

\* a request for a user arrives and its handler starts to wait
Invoke(r) ==
  /\ ctx[r].phase = "idle"
  /\ r > 1 => ctx[r - 1].phase # "idle"
  /\ ctx' = [ctx EXCEPT ![r] = Awaiting(UserRequest)]
  /\ UNCHANGED <<env, now, win, proc>>

\* the promise of the handler settles; a rejection nobody handles raises
\* 'unhandledRejection' in the process
Settle(r) ==
  /\ ctx[r].phase = "awaiting"
  /\ \E s \in Settlements :
       \E a \in {asyncHandler(ctx[r], s)} :
         /\ ctx' = [ctx EXCEPT ![r] =
                      IF a.c.next
                        THEN Handle([c |-> a.c, win |-> win], AfterRoutes).c
                        ELSE a.c]
         /\ proc' = IF a.unhandled THEN onFault(proc, "unhandledRejection")
                    ELSE proc
  /\ UNCHANGED <<env, now, win>>

\* time passes while a handler waits, once the responses that were sent
\* have finished
AsyncTick ==
  /\ now + TickMs <= MaxTicks * TickMs
  /\ \E r \in Reqs : ctx[r].phase = "awaiting"
  /\ \A r \in Reqs : ctx[r].phase # "responded"
  /\ now' = now + TickMs
  /\ UNCHANGED <<env, ctx, win, proc>>

NextAsync ==
  \/ \E r \in Reqs : Invoke(r)
  \/ \E r \in Reqs : Settle(r)
  \/ \E r \in Reqs : Finish(r)
  \/ AsyncTick

SpecAsync == InitAsync /\ [][NextAsync]_vars

----------------------------------------------------------------------------
(* The application under the requests of its route tests: GET / and         *)
(* GET /health                                                              *)

HealthRequest == [method |-> "GET", url |-> "/health", body |-> "ok"]

ProbeRequests == {rq \in Requests : rq.url = "/"} \cup {HealthRequest}

\* a test request arrives and runs until it is answered
Probe(r) ==
  /\ ctx[r].phase = "idle"
  /\ r > 1 => ctx[r - 1].phase # "idle"
  /\ \E rq \in ProbeRequests :
       \E w \in {Handle([c |-> NewCtx(rq), win |-> win], 1)} :
         /\ ctx' = [ctx EXCEPT ![r] = w.c]
         /\ win' = w.win
  /\ UNCHANGED <<env, now, proc>>

NextProbe ==
  \/ \E r \in Reqs : Probe(r)
  \/ \E r \in Reqs : Finish(r)
  \/ Tick

SpecProbe == Init /\ [][NextProbe]_vars

----------------------------------------------------------------------------
(* What is observed of a request *)

Ran(c, layer) == \E i \in DOMAIN c.stages : c.stages[i] = layer

StageIdx(c, layer) == {i \in DOMAIN c.stages : c.stages[i] = layer}

LogIdx(c, message) ==
  {i \in DOMAIN c.trace :
     c.trace[i].kind = "log" /\ c.trace[i].message = message}

LevelIdx(c, lvl) ==
  {i \in DOMAIN c.trace : c.trace[i].kind = "log" /\ c.trace[i].level = lvl}

ResponseIdx(c) == {i \in DOMAIN c.trace : c.trace[i].kind = "response"}

Answered(c) == c.phase \in {"responded", "finished"}

----------------------------------------------------------------------------
(* Claims *)

\* C1: every failure that reaches errorHandler (the 404 of notFoundHandler,
\* the error of GET /error, a body that does not parse) has exactly one
\* error-level record and exactly one response, the record before the
\* response.
C1_OneLogOneResponse ==
  \A r \in Reqs :
    LET c == ctx[r]
    IN  Ran(c, "errorHandler") =>
          /\ Cardinality(LevelIdx(c, "error")) = 1
          /\ Cardinality(ResponseIdx(c)) = 1
          /\ c.sent = 1
          /\ \A i \in LevelIdx(c, "error") : \A j \in ResponseIdx(c) : i < j

\* C1 witness: the 404 of an unmatched route went through errorHandler and
\* was answered.
C1_Witness ==
  \E r \in Reqs :
    /\ Ran(ctx[r], "notFoundHandler")
    /\ Ran(ctx[r], "errorHandler")
    /\ Answered(ctx[r])
    /\ LevelIdx(ctx[r], "error") # {}

\* C2 (as claimed): a failure that is an AppError is answered with its own
\* statusCode and its own message, whatever its name.  Stated for AppErrors
\* with a valid status and a non-empty message, where the fallbacks of lines
\* 79-80 play no part.
C2_AppErrorKeepsItsOwn ==
  \A r \in Reqs :
    LET c == ctx[r]
    IN  ( /\ Ran(c, "errorHandler")
          /\ c.err.isAppError
          /\ c.err.statusCode >= 100
          /\ c.err.message # "" ) =>
          /\ c.statusCode = c.err.statusCode
          /\ c.resBody.error.message = c.err.message

\* the classification table of the specification for a failure that is not
\* an AppError
TableStatus(err) ==
  CASE err.name = "CastError"                        -> 404
    [] err.name = "MongoError" /\ err.code = 11000   -> 400
    [] err.name = "ValidationError"                  -> 400
    [] err.name = "JsonWebTokenError"                -> 401
    [] err.name = "TokenExpiredError"                -> 401
    [] OTHER                                         -> 500

TableMessage(err) ==
  CASE err.name = "CastError"                        -> "Resource not found"
    [] err.name = "MongoError" /\ err.code = 11000   -> "Duplicate field value entered"
    [] err.name = "ValidationError"                  -> Join(err.errors)
    [] err.name = "JsonWebTokenError"                -> "Invalid token"
    [] err.name = "TokenExpiredError"                -> "Token expired"
    [] OTHER -> IF err.message = "" THEN "Server Error" ELSE err.message

\* C3 (as claimed): a failure that is not an AppError is answered with the
\* status and the message of the table, a ValidationError with its field
\* messages joined with ', '.
C3_TableAsClaimed ==
  \A r \in Reqs :
    LET c == ctx[r]
    IN  (Ran(c, "errorHandler") /\ ~c.err.isAppError) =>
          /\ c.statusCode = TableStatus(c.err)
          /\ c.resBody.error.message = TableMessage(c.err)

\* C3 (amended): as the table, except that a ValidationError whose field
\* messages join to the empty string is answered with 'Server Error'.
C3_TableAmended ==
  \A r \in Reqs :
    LET c == ctx[r]
    IN  (Ran(c, "errorHandler") /\ ~c.err.isAppError) =>
          /\ c.statusCode = TableStatus(c.err)
          /\ c.resBody.error.message =
               IF TableMessage(c.err) = "" THEN "Server Error"
               ELSE TableMessage(c.err)

\* C3 witness: a ValidationError without field messages was answered with
\* 400 and 'Server Error'.
C3_Witness ==
  \E r \in Reqs :
    /\ Ran(ctx[r], "errorHandler")
    /\ ~ctx[r].err.isAppError
    /\ ctx[r].err.name = "ValidationError"
    /\ ctx[r].err.errors = <<>>
    /\ ctx[r].statusCode = 400
    /\ ctx[r].resBody.error.message = "Server Error"

NoRoute(c) ==
  \A layer \in DOMAIN Routes :
    ~(Routes[layer].method = c.method /\ Routes[layer].path = c.url)

\* the request got past the body parsers and the global limiter
ReachedRouting(c) ==
  /\ c.phase # "idle"
  /\ c.body # "malformed"
  /\ ~(c.statusCode = 429 /\ Answered(c))

\* C5: a request that matches no route (and reaches the routes) is answered
\* 404 with the message "Route <path> not found"; the condition is logged
\* once, by errorHandler, and answered once.
C5_NotFound ==
  \A r \in Reqs :
    LET c == ctx[r]
        routeMessage == "Route " \o c.url \o " not found"
    IN  /\ (NoRoute(c) /\ ReachedRouting(c)) => Ran(c, "notFoundHandler")
        /\ Ran(c, "notFoundHandler") =>
             /\ NoRoute(c)
             /\ Answered(c)
             /\ c.statusCode = 404
             /\ c.resBody.success = FALSE
             /\ c.resBody.error.message = routeMessage
             /\ Cardinality(LevelIdx(c, "error")) = 1
             /\ \A i \in LevelIdx(c, "error") :
                  /\ c.trace[i].message = "Error occurred:"
                  /\ c.trace[i].meta.error.message = routeMessage
             /\ Cardinality(ResponseIdx(c)) = 1
             /\ \A j \in ResponseIdx(c) : c.trace[j].statusCode = 404

\* C5 witness: GET /unknown-path was answered 404.
C5_Witness ==
  \E r \in Reqs :
    /\ ctx[r].url = "/unknown-path"
    /\ Ran(ctx[r], "notFoundHandler")
    /\ Answered(ctx[r])
    /\ ctx[r].statusCode = 404

C7_StatusAtLeast100 ==
  \A r \in Reqs :
    Ran(ctx[r], "errorHandler") => ctx[r].statusCode >= 100

StartIdx(c) == LogIdx(c, "Incoming request")

FinishIdx(c) == LogIdx(c, "Outgoing response")

\* the record carries the method and the url of the request
OwnIdentity(c, i) ==
  /\ c.trace[i].meta.method = c.method
  /\ c.trace[i].meta.url = c.url

\* C8 (as claimed): every request, in every environment, has exactly one
\* 'Incoming request' record and exactly one 'Outgoing response' record, in
\* that order, with its own method and url.
C8_OneStartOneFinish ==
  \A r \in Reqs :
    LET c == ctx[r]
    IN  Answered(c) =>
          /\ Cardinality(StartIdx(c)) = 1
          /\ Cardinality(FinishIdx(c)) = 1
          /\ \A i \in StartIdx(c) : \A j \in FinishIdx(c) : i < j
          /\ \A i \in StartIdx(c) \cup FinishIdx(c) : OwnIdentity(c, i)

\* the logger lets info records through: NODE_ENV is 'development' or unset
InfoIsLogged == env \in {"development", Unset}

\* C8 (amended): when NODE_ENV is 'development' or unset, a request whose
\* body parses has, under any interleaving, exactly one start record from
\* its arrival on and exactly one finish record once it is answered, the
\* start record first, both with its own method and url, the finish record
\* with the time from its own start to its response; in any other
\* environment, and for a request whose body does not parse, there is
\* neither record.
C8_StartAndFinishInDevelopment ==
  \A r \in Reqs :
    LET c == ctx[r]
        expected == IF InfoIsLogged /\ c.body = "ok" THEN 1 ELSE 0
    IN  c.phase # "idle" =>
          /\ Cardinality(StartIdx(c)) = expected
          /\ Cardinality(FinishIdx(c)) = IF Answered(c) THEN expected ELSE 0
          /\ \A i \in StartIdx(c) : \A j \in FinishIdx(c) : i < j
          /\ \A i \in StartIdx(c) \cup FinishIdx(c) : OwnIdentity(c, i)
          /\ c.phase = "responded" =>
               \A j \in FinishIdx(c) :
                 c.trace[j].meta.responseTime = c.sentAt - c.startTime

\* C8 witness: two requests overlap in development: one is answered after
\* the other arrived, and its finish record reports a positive duration.
C8_Witness ==
  \E r, q \in Reqs :
    /\ r # q
    /\ InfoIsLogged
    /\ Answered(ctx[r])
    /\ ctx[q].phase # "idle"
    /\ ctx[r].startTime < ctx[q].startTime
    /\ ctx[q].startTime < ctx[r].sentAt
    /\ \E j \in FinishIdx(ctx[r]) : ctx[r].trace[j].meta.responseTime > 0

SlowIdx(c) == LogIdx(c, "Slow request detected")

\* C9: when the response of a request finishes, a 'Slow request detected'
\* record is written, once and at level warn, exactly if the time since the
\* start performanceMonitor recorded exceeds 1000 ms; there is none before
\* and none is added later.
C9_SlowWarnedOnce ==
  /\ [](\A r \in Reqs :
          /\ ctx[r].phase # "finished" => SlowIdx(ctx[r]) = {}
          /\ \A i \in SlowIdx(ctx[r]) : ctx[r].trace[i].level = "warn")
  /\ [][\A r \in Reqs :
          /\ (ctx[r].phase = "responded" /\ ctx'[r].phase = "finished") =>
               Cardinality(SlowIdx(ctx'[r])) =
                 IF ctx[r].finishListener /\ now - ctx[r].startTime > 1000
                   THEN 1 ELSE 0
          /\ ctx[r].phase = "finished" => ctx'[r] = ctx[r]]_vars

\* C9 witness: GET /slow finished with its slow-request record, and another
\* request finished without one.
C9_Witness ==
  \E r, q \in Reqs :
    /\ ctx[r].phase = "finished"
    /\ ctx[r].url = "/slow"
    /\ Cardinality(SlowIdx(ctx[r])) = 1
    /\ ctx[q].phase = "finished"
    /\ ctx[q].finishListener
    /\ SlowIdx(ctx[q]) = {}

\* layer a is entered before layer b whenever the request enters both
Before(c, a, b) ==
  \A i \in StageIdx(c, a) : \A j \in StageIdx(c, b) : i < j

\* C10 (as claimed): the admission decision of a request is taken before its
\* start record is emitted: the limiter is entered ahead of requestLogger.
C10_LimiterBeforeStart ==
  \A r \in Reqs :
    LET c == ctx[r]
    IN  Ran(c, "requestLogger") =>
          /\ Ran(c, "getRateLimiter")
          /\ Before(c, "getRateLimiter", "requestLogger")

RouteLayers ==
  {"GET /", "GET /error", "GET /slow", "GET /limiter/strict",
   "POST /limiter/auth", "notFoundHandler"}

\* C10 (amended): a request passes the body parsers first; if its body
\* parses it passes the instrumentation start (performanceMonitor, then
\* requestLogger and its start record), then the limiter, then, if admitted,
\* one route handler or notFoundHandler, then errorHandler on failure; the
\* finish record comes after the error record.  The admission decision is
\* taken after the start record.
C10_StartBeforeLimiter ==
  \A r \in Reqs :
    LET c == ctx[r]
    IN  c.phase # "idle" =>
          /\ c.stages[1] = "bodyParsers"
          /\ c.body = "ok" =>
               /\ Ran(c, "performanceMonitor")
               /\ Ran(c, "requestLogger")
               /\ Ran(c, "getRateLimiter")
          /\ Before(c, "performanceMonitor", "requestLogger")
          /\ Before(c, "requestLogger", "getRateLimiter")
          /\ \A i \in StartIdx(c) : \A j \in LogIdx(c, "Rate limit exceeded") :
               i < j
          /\ \A i \in DOMAIN c.stages :
               c.stages[i] \in RouteLayers =>
                 /\ \E j \in 1..(i - 1) : c.stages[j] = "getRateLimiter"
                 /\ \A j \in 1..i : c.stages[j] # "errorHandler"
                 /\ \A j \in DOMAIN c.stages :
                      c.stages[j] \in RouteLayers => j = i
                 /\ \A j \in (i + 1)..Len(c.stages) :
                      c.stages[j] # "getRateLimiter"
          /\ \A i \in LevelIdx(c, "error") : \A j \in FinishIdx(c) : i < j

\* C10 witness: a request was denied by the global limiter after its start
\* record had been written, and another one failed in its route and went on
\* to errorHandler.
C10_Witness ==
  \E r, q \in Reqs :
    /\ LogIdx(ctx[r], "Rate limit exceeded") # {}
    /\ StartIdx(ctx[r]) # {}
    /\ ~(\E layer \in RouteLayers : Ran(ctx[r], layer))
    /\ Ran(ctx[q], "GET /error")
    /\ Ran(ctx[q], "errorHandler")
    /\ FinishIdx(ctx[q]) # {}

----------------------------------------------------------------------------
(* Claims about the logger *)

RECURSIVE Filter(_, _)
\* the levels of calls, in order, that are in the set pass
Filter(calls, pass) ==
  IF calls = <<>> THEN <<>>
  ELSE IF Head(calls) \in pass
         THEN <<Head(calls)>> \o Filter(Tail(calls), pass)
         ELSE Filter(Tail(calls), pass)

RECURSIVE Written(_, _)
\* the levels of the records of trace, in order, that were written to sink
Written(trace, sink) ==
  IF trace = <<>> THEN <<>>
  ELSE IF sink \in Head(trace).sinks
         THEN <<Head(trace).level>> \o Written(Tail(trace), sink)
         ELSE Written(Tail(trace), sink)

\* the levels whose number is at most the number of threshold
AtMost(threshold) == {l \in DOMAIN levels : levels[l] <= levels[threshold]}

\* C11: the console receives a record exactly if its severity number is at
\* most the threshold's: all five levels in development (NODE_ENV
\* 'development' or unset), only error and warn in production and under any
\* other value; a record of lower priority than the threshold is suppressed.
C11_ConsoleThreshold ==
  LET threshold == IF env \in {"development", Unset} THEN "debug" ELSE "warn"
  IN  /\ Written(ctx.trace, "console") = Filter(ctx.calls, AtMost(threshold))
      /\ env \in {"development", Unset} => AtMost(threshold) = DOMAIN levels
      /\ env \notin {"development", Unset} =>
           AtMost(threshold) = {"error", "warn"}

\* C11 witness: in production an info call was suppressed and a warn call
\* reached the console.
C11_Witness ==
  /\ env = "production"
  /\ \E i \in DOMAIN ctx.calls : ctx.calls[i] = "info"
  /\ Written(ctx.trace, "console") = <<"warn">>

\* C12 (as claimed): under a NODE_ENV that is neither 'development' nor
\* 'production' the combined file receives the records of all five levels.
C12_CombinedTakesAllLevels ==
  env \notin {"development", "production", Unset} =>
    Written(ctx.trace, "combinedFile") = ctx.calls

\* C13 (as claimed): with the empty string for NODE_ENV there is no logger:
\* nothing is ever written.
C13_EmptyEnvRejected ==
  env = "" => ctx.trace = <<>>

\* C14: error.log receives the error records and nothing else, combined.log
\* receives every record that passes the logger's threshold, so every error
\* record is in both.
C14_FileSinks ==
  /\ Written(ctx.trace, "errorFile") = Filter(ctx.calls, {"error"})
  /\ Written(ctx.trace, "combinedFile") = Filter(ctx.calls, AtMost(level))
  /\ \A i \in DOMAIN ctx.trace :
       /\ "combinedFile" \in ctx.trace[i].sinks
       /\ ctx.trace[i].level = "error" =>
            {"errorFile", "combinedFile"} \subseteq ctx.trace[i].sinks

\* C14 witness: an error record went to both files and a warn record to
\* combined.log only.
C14_Witness ==
  /\ Written(ctx.trace, "errorFile") = <<"error">>
  /\ Written(ctx.trace, "combinedFile") = <<"error", "warn">>

----------------------------------------------------------------------------
(* Claims about the admission limiter *)

\* the tier of the limiter in front of a route, "none" where there is none
RouteTier(url) ==
  CASE url = "/limiter/strict" -> "strict"
    [] url = "/limiter/auth"   -> "auth"
    [] OTHER                   -> "none"

\* the contract in the claim's words: no window, or the window has elapsed
IsFresh(window) == ~window.active \/ now - window.start >= WindowMs

AfterCall(window) ==
  IF IsFresh(window) THEN [active |-> TRUE, start |-> now, count |-> 1]
  ELSE [active |-> TRUE, start |-> window.start, count |-> window.count + 1]

IsAllowed(window, N) == IsFresh(window) \/ window.count + 1 <= N

\* C15: every call of a limiter starts a fresh window with count 1 and is
\* allowed when there is no window or the window has elapsed, whatever the
\* old window held; otherwise it adds one to the count and is allowed
\* exactly if the count is at most the tier's maximum.  The general limiter
\* is called for every request, a route's limiter for the requests the
\* general limiter allowed; a denied call is answered 429.
C15_WindowContract ==
  [][Len(ctx') = Len(ctx) + 1 =>
       LET c  == ctx'[Len(ctx')]
           rt == RouteTier(c.url)
           generalOk == IsAllowed(win["general"], maxRequests("general"))
           routeOk   == rt = "none" \/ IsAllowed(win[rt], maxRequests(rt))
       IN  /\ win'["general"] = AfterCall(win["general"])
           /\ \A t \in Tiers \ {"general"} :
                win'[t] = IF generalOk /\ t = rt THEN AfterCall(win[t])
                          ELSE win[t]
           /\ c.statusCode = IF generalOk /\ routeOk THEN 200 ELSE 429]_vars

\* C15 witness: a call was denied, the window elapsed, and the next call of
\* the same route was allowed on a fresh window.
C15_Witness ==
  \E i \in DOMAIN ctx :
    /\ i > 1
    /\ ctx[i - 1].statusCode = 429
    /\ ctx[i].statusCode = 200
    /\ RouteTier(ctx[i].url) # "none"
    /\ win[RouteTier(ctx[i].url)].start >= WindowMs

DenialIdx(c) == LogIdx(c, "Rate limit exceeded")

RateLimitHeaders == {"RateLimit-Limit", "RateLimit-Remaining", "RateLimit-Reset"}

\* every call so far fell into the one window the first call opened; the
\* general limiter counts every call, so its count tells
OneWindow(tier) == ctx # <<>> /\ win[tier].count = Len(ctx)

\* C16: calls of GET /limiter/strict that fall into one window, none of
\* them stopped by the general limiter: the first five are answered 200,
\* the sixth and later ones 429 with the rate-limit headers.  A denial
\* writes exactly one 'Rate limit exceeded' record, at level warn, an
\* allowed call none, and a rate-limited route answers 200 or 429 only.
C16_SixthCallDenied ==
  /\ (OneWindow("general") /\ ctx[1].url = "/limiter/strict") =>
       \A i \in DOMAIN ctx :
         ctx[i].statusCode = IF i <= 5 THEN 200 ELSE 429
  /\ \A i \in DOMAIN ctx :
       LET c == ctx[i]
       IN  RouteTier(c.url) # "none" =>
             /\ c.statusCode \in {200, 429}
             /\ c.statusCode = 429 =>
                  /\ RateLimitHeaders \subseteq c.headers
                  /\ Cardinality(DenialIdx(c)) = 1
                  /\ \A j \in DenialIdx(c) : c.trace[j].level = "warn"
             /\ c.statusCode = 200 => DenialIdx(c) = {}

\* C16 witness: six calls of GET /limiter/strict in one window, the fifth
\* answered 200 and the sixth 429.
C16_Witness ==
  /\ Len(ctx) = 6
  /\ ctx[1].url = "/limiter/strict"
  /\ OneWindow("general")
  /\ ctx[5].statusCode = 200
  /\ ctx[6].statusCode = 429

\* C17: a denied request is not a failure: it never enters errorHandler,
\* carries no error and has no error-level record.
C17_DenialIsNoFault ==
  \A i \in DOMAIN ctx :
    LET c == ctx[i]
    IN  (c.statusCode = 429 \/ DenialIdx(c) # {}) =>
          /\ ~Ran(c, "errorHandler")
          /\ ~c.err.present
          /\ LevelIdx(c, "error") = {}
          /\ Cardinality(ResponseIdx(c)) = 1

\* C17 witness: one call was denied by its route's limiter and a later one
\* by the general limiter.
C17_Witness ==
  \E i, j \in DOMAIN ctx :
    /\ i < j
    /\ ctx[i].statusCode = 429 /\ Ran(ctx[i], "GET /limiter/strict")
    /\ ctx[j].statusCode = 429 /\ ~Ran(ctx[j], "GET /limiter/strict")

----------------------------------------------------------------------------
(* Claims about the process *)

Signalled == proc.signalAt # NoTime

Deadline == proc.signalAt + ForceTimeoutMs

\* C18: from the first SIGTERM or SIGINT on the server accepts no new
\* connection, while the requests in flight go on to their responses.  A
\* process that has had no unhandled rejection and no uncaught exception
\* exits with code 0 when the server closes, at the deadline (10 seconds
\* after the signal) at the latest, and with code 1, forced by the timer,
\* at the deadline otherwise; in every case it has exited when the clock
\* passes the deadline.
C18_ShutdownByDeadline ==
  /\ [](Signalled =>
          /\ ~proc.listening
          /\ ~proc.exited => now <= Deadline
          /\ proc.exited => proc.exitedAt <= Deadline
          /\ (proc.exited /\ ~proc.faulted) =>
               \/ proc.exitCode = 0 /\ proc.exitBy = "close"
               \/ /\ proc.exitCode = 1
                  /\ proc.exitBy = "timer"
                  /\ proc.exitedAt = Deadline)
  /\ [][Signalled =>
          \A r \in Reqs : ctx[r].phase = "idle" => ctx'[r].phase = "idle"]_vars

\* C18 witness: a request was in flight when the signal came, it was
\* answered, its connection ended and the process exited with code 0 at
\* the deadline.
C18_Witness ==
  /\ proc.exited
  /\ proc.exitCode = 0
  /\ proc.signalAt = 0
  /\ proc.exitedAt = ForceTimeoutMs
  /\ \E r \in Reqs : ctx[r].phase = "finished"

ErrorRecords(p) ==
  {i \in DOMAIN p.trace : p.trace[i].level = "error"}

\* C19 (as claimed): after an unhandled rejection or an uncaught exception
\* an error-level record is written, and the exit with code 1 does not
\* depend on the connections: the process has exited with code 1, or a
\* timer that will end it is pending, or no connection is open.
C19_FaultEndsTheProcess ==
  proc.faulted =>
    /\ ErrorRecords(proc) # {}
    /\ proc.exited => proc.exitCode = 1
    /\ ~proc.exited => proc.timers # {} \/ proc.conns = {}

----------------------------------------------------------------------------
(* Claims about HTTP request logging *)

HttpIdx(c) == LevelIdx(c, "http")

\* C20 (as claimed): in production a request whose response has finished
\* has one HTTP record, in the concise format, if its status is 400 or
\* above, and none if it is below.
C20_ProductionLogsErrorResponses ==
  env = "production" =>
    \A r \in Reqs :
      LET c == ctx[r]
      IN  c.phase = "finished" =>
            /\ Cardinality(HttpIdx(c)) = IF c.statusCode >= 400 THEN 1 ELSE 0
            /\ \A i \in HttpIdx(c) : c.trace[i].meta.format = "prodFormat"

\* the record was written to at least one transport
ReachesOutput(rec) == rec.sinks # {}

\* C21 (as claimed): outside development every request whose response has
\* finished, whatever its status, has one http-level record that reaches the
\* log output; in development (NODE_ENV 'development' or unset) it has one
\* exactly if its status is 400 or above.
C21_HttpRecordPerRequest ==
  \A r \in Reqs :
    LET c == ctx[r]
        expected == IF ResolvedEnv # "development" \/ c.statusCode >= 400
                      THEN 1 ELSE 0
    IN  c.phase = "finished" =>
          /\ Cardinality(HttpIdx(c)) = expected
          /\ \A i \in HttpIdx(c) : ReachesOutput(c.trace[i])

----------------------------------------------------------------------------
(* Claims about asyncHandler *)

SettledIdx(c) == {i \in DOMAIN c.trace : c.trace[i].kind = "settled"}

NextIdx(c) == {i \in DOMAIN c.trace : c.trace[i].kind = "next"}

\* C22: when the promise of a wrapped handler rejects, the wrapper calls
\* next once, with the reason of the rejection, and the request goes on to
\* errorHandler with that reason; when it resolves, or while it is pending,
\* the wrapper does not call next; no rejection of a wrapped handler raises
\* 'unhandledRejection'.
C22_RejectionGoesToNextOnce ==
  /\ ~proc.faulted
  /\ \A r \in Reqs :
       LET c == ctx[r]
       IN  /\ Cardinality(SettledIdx(c)) <= 1
           /\ SettledIdx(c) = {} => NextIdx(c) = {}
           /\ \A i \in SettledIdx(c) :
                IF c.trace[i].rejects
                  THEN /\ Cardinality(NextIdx(c)) = 1
                       /\ \A j \in NextIdx(c) :
                            /\ i < j
                            /\ c.trace[j].err = c.trace[i].reason
                       /\ c.err = c.trace[i].reason
                       /\ StageIdx(c, "errorHandler") # {}
                       /\ Cardinality(ResponseIdx(c)) = 1
                  ELSE /\ NextIdx(c) = {}
                       /\ ~c.err.present
                       /\ StageIdx(c, "errorHandler") = {}

\* C22 witness: one handler threw 'User not found' and its request was
\* answered 404 by errorHandler, another one resolved and answered 200.
C22_Witness ==
  \E r, q \in Reqs :
    /\ \E i \in SettledIdx(ctx[r]) :
         /\ ctx[r].trace[i].rejects
         /\ ctx[r].trace[i].reason = AppError("User not found", 404)
    /\ Ran(ctx[r], "errorHandler")
    /\ ctx[r].statusCode = 404
    /\ \E i \in SettledIdx(ctx[q]) : ~ctx[q].trace[i].rejects
    /\ ctx[q].statusCode = 200
    /\ Answered(ctx[q])

----------------------------------------------------------------------------
(* Claims about the routes *)

\* C23 (as claimed): GET /, once its handler has answered, has status 200
\* and a body whose message is 'Hello Express!' and which has a timestamp.
C23_HomeSaysHelloExpress ==
  \A r \in Reqs :
    LET c == ctx[r]
    IN  (Ran(c, "GET /") /\ Answered(c)) =>
          /\ c.statusCode = 200
          /\ "message" \in DOMAIN c.resBody
          /\ c.resBody.message = "Hello Express!"
          /\ "timestamp" \in DOMAIN c.resBody

\* C24 (as claimed): GET /health, once it is past the global limiter and
\* answered, has status 200 and a body with status 'ok', message 'Server is
\* healthy!' and an uptime; notFoundHandler does not see it.
C24_HealthIsServed ==
  \A r \in Reqs :
    LET c == ctx[r]
    IN  (c.url = "/health" /\ ReachedRouting(c) /\ Answered(c)) =>
          /\ ~Ran(c, "notFoundHandler")
          /\ c.statusCode = 200
          /\ {"status", "message", "uptime"} \subseteq DOMAIN c.resBody
          /\ c.resBody.status = "ok"
          /\ c.resBody.message = "Server is healthy!"

----------------------------------------------------------------------------
(* Claims about the two durations of a request *)

\* C25 (as claimed): a request whose response has finished has the 'Slow
\* request detected' record exactly if the responseTime of its 'Outgoing
\* response' record exceeds 1000 ms.
C25_SlowIffFinishRecord ==
  \A r \in Reqs :
    LET c == ctx[r]
    IN  c.phase = "finished" =>
          ( SlowIdx(c) # {} <=>
              \E j \in FinishIdx(c) : c.trace[j].meta.responseTime > 1000 )

\* C25 (amended): the 'Outgoing response' record is written when the
\* response is sent and the 'Slow request detected' record when it has
\* finished, each with the time since the one start performanceMonitor
\* recorded.  So the warning reports more than 1000 ms and at least the
\* responseTime of the finish record, which precedes it; a responseTime
\* above 1000 ms implies the warning, not the other way round; and where
\* NODE_ENV is neither 'development' nor unset there is no finish record
\* beside the warning.
C25_TwoMeasurements ==
  \A r \in Reqs :
    LET c == ctx[r]
    IN  c.phase = "finished" =>
          /\ Cardinality(SlowIdx(c)) <= 1
          /\ \A i \in SlowIdx(c) :
               /\ c.trace[i].meta.duration > 1000
               /\ \A j \in FinishIdx(c) :
                    /\ j < i
                    /\ c.trace[j].meta.responseTime <= c.trace[i].meta.duration
          /\ \A j \in FinishIdx(c) :
               c.trace[j].meta.responseTime > 1000 => SlowIdx(c) # {}
          /\ ~InfoIsLogged => FinishIdx(c) = {}

\* C25 witness: in development a request was answered at once, its response
\* took two seconds to finish, and it has a finish record of 0 ms beside a
\* warning of 2000 ms; GET /slow has both records above 1000 ms.
C25_Witness ==
  \E r, q \in Reqs :
    /\ ctx[r].phase = "finished"
    /\ \E j \in FinishIdx(ctx[r]) : ctx[r].trace[j].meta.responseTime = 0
    /\ \E i \in SlowIdx(ctx[r]) : ctx[r].trace[i].meta.duration = 2000
    /\ ctx[q].phase = "finished"
    /\ \E j \in FinishIdx(ctx[q]) : ctx[q].trace[j].meta.responseTime > 1000
    /\ SlowIdx(ctx[q]) # {}

----------------------------------------------------------------------------
(* Claims about the resolution of the environment *)

\* C26 (as claimed): with NODE_ENV unset every component behaves as in
\* development: the logger writes debug records, the response of a request
\* that reached morgan has an HTTP record, in the development format,
\* exactly if its status is 400 or above, and the body errorHandler sends
\* includes the stack.
C26_UnsetIsDevelopmentEverywhere ==
  env = Unset =>
    \A r \in Reqs :
      LET c == ctx[r]
      IN  /\ Ran(c, "GET /") => LevelIdx(c, "debug") # {}
          /\ (c.phase = "finished" /\ c.morganAttached) =>
               /\ Cardinality(HttpIdx(c)) =
                    IF c.statusCode >= 400 THEN 1 ELSE 0
               /\ \A i \in HttpIdx(c) : c.trace[i].meta.format = "devFormat"
          /\ Ran(c, "errorHandler") => "stack" \in DOMAIN c.resBody.error

----------------------------------------------------------------------------
(* Claims about signals and faults together *)

\* C27 (as claimed): a process that has logged an unhandled rejection or an
\* uncaught exception does not exit with code 0, whether the fault came
\* before, after or between the termination signals.
C27_NoCleanExitAfterFault ==
  (proc.faulted /\ ErrorRecords(proc) # {} /\ proc.exited) =>
    proc.exitCode # 0

\* the calls of gracefulShutdown so far: each one registered an exit with
\* code 0 on 'close'
SignalCount == Cardinality({i \in DOMAIN proc.onClose : proc.onClose[i] = 0})

\* C28: in a process without an unhandled rejection or uncaught exception,
\* once a second SIGTERM or SIGINT has been received the timer of the first
\* one is still pending and is the earliest, the process has exited when
\* the clock passes 10 seconds after the first signal, with code 0 if the
\* server closed first and with code 1 from that timer otherwise; and a
\* process that has exited does nothing more.
C28_RepeatedSignalsAreHarmless ==
  /\ []((SignalCount >= 2 /\ ~proc.faulted) =>
          /\ Deadline \in proc.timers
          /\ \A d \in proc.timers : d >= Deadline
          /\ ~proc.exited => now <= Deadline
          /\ proc.exited =>
               \/ /\ proc.exitBy = "close"
                  /\ proc.exitCode = 0
                  /\ proc.exitedAt <= Deadline
               \/ /\ proc.exitBy = "timer"
                  /\ proc.exitCode = 1
                  /\ proc.exitedAt = Deadline)
  /\ [][proc.exited => proc' = proc]_vars

\* C28 witness: a second signal came 10 seconds after the first and set a
\* second timer; the process was ended with code 1 by the first one.
C28_Witness ==
  /\ SignalCount >= 2
  /\ ~proc.faulted
  /\ Cardinality(proc.timers) = 2
  /\ proc.exited
  /\ proc.exitBy = "timer"
  /\ proc.exitCode = 1
  /\ proc.exitedAt = Deadline

----------------------------------------------------------------------------
(* Claims about the order of the layers *)

\* C29 (as claimed): a request answered by errorHandler, a request whose
\* body does not parse included, went through performanceMonitor, which
\* recorded its start time, and has its 'Incoming request' record before
\* its error record.
C29_StartBeforeErrorRecord ==
  \A r \in Reqs :
    LET c == ctx[r]
    IN  Ran(c, "errorHandler") =>
          /\ Ran(c, "performanceMonitor")
          /\ c.finishListener
          /\ \A e \in LevelIdx(c, "error") : \E i \in StartIdx(c) : i < e

\* the layer of a rate-limited route
RouteLayerOf(url) ==
  CASE url = "/limiter/strict" -> "GET /limiter/strict"
    [] url = "/limiter/auth"   -> "POST /limiter/auth"

\* C30: every call of /limiter/strict or /limiter/auth enters the global
\* limiter, and enters it before its route.  A call the global limiter
\* denies is answered 429, does not enter its route and leaves the window
\* of the route's limiter as it was; a call is answered 200 by the route's
\* handler exactly if the global limiter and then the route's limiter
\* allow it.
C30_GlobalLimiterThenRouteLimiter ==
  [][(Len(ctx') = Len(ctx) + 1 /\ RouteTier(ctx'[Len(ctx')].url) # "none") =>
       LET c  == ctx'[Len(ctx')]
           rt == RouteTier(c.url)
           layer == RouteLayerOf(c.url)
           generalOk == IsAllowed(win["general"], maxRequests("general"))
           routeOk   == IsAllowed(win[rt], maxRequests(rt))
       IN  /\ Ran(c, "getRateLimiter")
           /\ Before(c, "getRateLimiter", layer)
           /\ Ran(c, layer) <=> generalOk
           /\ ~generalOk => (win'[rt] = win[rt] /\ c.statusCode = 429)
           /\ c.statusCode = 200 <=> (generalOk /\ routeOk)
           /\ c.statusCode = 200 => "message" \in DOMAIN c.resBody]_vars

\* C30 witness: a call of GET /limiter/strict was denied by the global
\* limiter without entering its route, the strict window still at its
\* maximum plus the one call before; a later call was served.
C30_Witness ==
  \E i, j \in DOMAIN ctx :
    /\ i < j
    /\ ctx[i].url = "/limiter/strict"
    /\ ctx[i].statusCode = 429
    /\ Ran(ctx[i], "getRateLimiter")
    /\ ~Ran(ctx[i], "GET /limiter/strict")
    /\ ctx[j].statusCode = 200
    /\ Ran(ctx[j], "GET /limiter/strict")

====
